---------------------------- MODULE Spec2Model ----------------------------
(***************************************************************************)
(* Model of app.py, the Streamlit "Transfer Pricing Assistant".            *)
(*                                                                         *)
(* A Python str is a sequence of one-character strings.  A DOCX document   *)
(* is what python-docx shows the script: body paragraphs, each a sequence  *)
(* of runs (text + formatting), and tables -> rows -> cells -> paragraphs. *)
(* One script run of a page (a button press) is one action.                *)
(***************************************************************************)
EXTENDS Integers, Sequences, FiniteSets, TLC

VARIABLES
    function,        \* the page chosen in the sidebar: "2.", "3.", "4.", "5.", "6.", "sidebar"
    DocxDocument,    \* TRUE iff python-docx was importable
    requests,        \* TRUE iff requests, bs4 and lxml were importable
    yaml,            \* TRUE iff PyYAML was importable
    plt,             \* TRUE iff matplotlib was importable
    mode,            \* TPD Generator radio: "Fresh" / "Roll-forward"
    target_year,     \* number_input, MinYear..MaxYear
    template_docx,   \* uploaded template: None or a document
    prior_tpd,       \* uploaded prior-year TPD (Roll-forward mode): None or a document
    info_list_file,  \* uploaded information list: None or a text file
    urls_text,       \* text area: a sequence of lines
    company_name,    \* text input (the group name on the Master File page)
    country,         \* jurisdiction selectbox
    web,             \* the outside world: URL -> outcome of fetching it
    gp_file,         \* uploaded guideline pack: None or a file
    found_text,      \* Compliance Checker: text of the uploaded TPD
    reqs,            \* Compliance Checker: requirement list
    expl,            \* Compliance Checker: explanations, requirement -> text
    prior_text,      \* Information Request Generator: text of last year's list
    pc,              \* "idle" before the script run, then "done" or "stopped" (st.stop)
    errors,          \* st.error messages shown
    warnings,        \* st.warning messages shown
    download,        \* the document offered by st.download_button, or None
    fetch_log,       \* URLs handed to requests.get
    result           \* value returned by the page's pure routine (pack, checklist, rolled lines)

vars == <<function, DocxDocument, requests, yaml, plt, mode, target_year,
          template_docx, prior_tpd, info_list_file, urls_text, company_name,
          country, web, gp_file, found_text, reqs, expl, prior_text,
          pc, errors, warnings, download, fetch_log, result>>

inputs == <<function, DocxDocument, requests, yaml, plt, mode, target_year,
            template_docx, prior_tpd, info_list_file, urls_text, company_name,
            country, web, gp_file, found_text, reqs, expl, prior_text>>

\* Python None, among records (documents, uploaded files)
None == [none |-> TRUE]

-----------------------------------------------------------------------------
(* Python str primitives *)

\* s1 + s2 + ... for a sequence of strings ("".join)
RECURSIVE Join(_)
Join(ss) == IF ss = <<>> THEN <<>> ELSE Head(ss) \o Join(Tail(ss))

\* s.startswith(k)
StartsWith(s, k) == Len(k) <= Len(s) /\ SubSeq(s, 1, Len(k)) = k

\* s.endswith(k)
EndsWith(s, k) == Len(k) <= Len(s) /\ SubSeq(s, Len(s) - Len(k) + 1, Len(s)) = k

\* k in s, by a left-to-right scan
RECURSIVE Contains(_, _)
Contains(s, k) ==
    IF Len(s) < Len(k) THEN FALSE
    ELSE IF StartsWith(s, k) THEN TRUE
    ELSE Contains(Tail(s), k)

\* s.replace(k, v) for a non-empty k: leftmost, non-overlapping occurrences, one pass
RECURSIVE Replace(_, _, _)
Replace(s, k, v) ==
    IF Len(s) < Len(k) THEN s
    ELSE IF StartsWith(s, k) THEN v \o Replace(SubSeq(s, Len(k) + 1, Len(s)), k, v)
    ELSE <<Head(s)>> \o Replace(Tail(s), k, v)

\* str.lower(), on the letters the model uses
UpperToLower ==
    [c \in {"A", "B", "D", "E", "G", "I", "K", "L", "M", "O", "P", "R", "S", "W", "Y"} |->
        CASE c = "A" -> "a" [] c = "B" -> "b" [] c = "D" -> "d" [] c = "E" -> "e"
          [] c = "G" -> "g" [] c = "I" -> "i" [] c = "K" -> "k" [] c = "L" -> "l"
          [] c = "M" -> "m" [] c = "O" -> "o" [] c = "P" -> "p" [] c = "R" -> "r"
          [] c = "S" -> "s" [] c = "W" -> "w" [] c = "Y" -> "y"]

LowerChar(c) == IF c \in DOMAIN UpperToLower THEN UpperToLower[c] ELSE c

Lower(s) == [i \in 1..Len(s) |-> LowerChar(s[i])]

IsSpace(c) == c \in {" ", "\t", "\n"}

\* s.strip()
RECURSIVE LStrip(_)
LStrip(s) == IF s # <<>> /\ IsSpace(Head(s)) THEN LStrip(Tail(s)) ELSE s

RECURSIVE RStrip(_)
RStrip(s) ==
    IF s # <<>> /\ IsSpace(s[Len(s)]) THEN RStrip(SubSeq(s, 1, Len(s) - 1)) ELSE s

Strip(s) == RStrip(LStrip(s))

\* str(n) for a non-negative int
DigitChar(d) == <<"0", "1", "2", "3", "4", "5", "6", "7", "8", "9">>[d + 1]

RECURSIVE Str(_)
Str(n) == IF n < 10 THEN <<DigitChar(n)>> ELSE Str(n \div 10) \o <<DigitChar(n % 10)>>


-----------------------------------------------------------------------------
(* python-docx documents *)

\* A literal of the source that is only ever copied whole is written as one symbol,
\* in ASCII (an em dash as '-', a bullet as '*').

\* p.text: the concatenation of the paragraph's run texts
ParagraphText(p) == Join([i \in 1..Len(p) |-> p[i].text])

\* The body of the two loops of replace_text_in_docx, for one paragraph:
\* for k, v in mapping.items(): if k in p.text: first run gets whole.replace(k, v),
\* every later run gets ""
RECURSIVE ReplaceInParagraph(_, _)
ReplaceInParagraph(p, mapping) ==
    IF mapping = <<>> THEN p
    ELSE LET k == Head(mapping)[1]
             v == Head(mapping)[2]
             whole == ParagraphText(p)
             new_text == Replace(whole, k, v)
             q == IF Contains(ParagraphText(p), k)
                  THEN [idx \in 1..Len(p) |->
                          [p[idx] EXCEPT !.text = IF idx > 1 THEN <<>> ELSE new_text]]
                  ELSE p
         IN ReplaceInParagraph(q, Tail(mapping))

ReplaceInParagraphs(ps, mapping) ==
    [i \in 1..Len(ps) |-> ReplaceInParagraph(ps[i], mapping)]

\* for tbl in doc.tables: for row in tbl.rows: for cell in row.cells: for p in cell.paragraphs
ReplaceInTables(tables, mapping) ==
    [t \in 1..Len(tables) |->
        [r \in 1..Len(tables[t]) |->
            [c \in 1..Len(tables[t][r]) |->
                ReplaceInParagraphs(tables[t][r][c], mapping)]]]

\* Variant: the table loop is left out.
replace_text_in_docx_BodyOnly(doc, mapping) ==
    IF ~DocxDocument THEN doc
    ELSE [paragraphs |-> ReplaceInParagraphs(doc.paragraphs, mapping),
          tables     |-> doc.tables]

replace_text_in_docx(doc, mapping) ==
    IF ~DocxDocument THEN doc
    ELSE [paragraphs |-> ReplaceInParagraphs(doc.paragraphs, mapping),
          tables     |-> ReplaceInTables(doc.tables, mapping)]

\* doc.add_paragraph(text): a new last paragraph, with one run when text is not empty
DocAddParagraph(doc, text) ==
    [doc EXCEPT !.paragraphs =
        Append(@, IF text = <<>> THEN <<>> ELSE <<[text |-> text, fmt |-> "default"]>>)]

HeadingFmt(level) == IF level = 1 THEN "bold16" ELSE IF level = 2 THEN "bold14" ELSE "bold12"

add_heading(doc, text, level) ==
    IF ~DocxDocument THEN doc
    ELSE [doc EXCEPT !.paragraphs = Append(@, <<[text |-> text, fmt |-> HeadingFmt(level)]>>)]

\* str.expandtabs(), as textwrap applies it: a tab fills up to the next multiple of 8
TabSize == 8

RECURSIVE ExpandTabs(_, _)
ExpandTabs(s, col) ==
    IF s = <<>> THEN <<>>
    ELSE IF Head(s) = "\t"
         THEN [i \in 1..(TabSize - (col % TabSize)) |-> " "] \o ExpandTabs(Tail(s), 0)
    ELSE IF Head(s) = "\n" THEN <<"\n">> \o ExpandTabs(Tail(s), 0)
    ELSE <<Head(s)>> \o ExpandTabs(Tail(s), col + 1)

\* textwrap.fill(text, 120) on a text that fits one line: tabs are expanded, whitespace
\* characters become spaces and the line's trailing whitespace is dropped.  (Texts that
\* wrap are not modelled.)
Fill(text) ==
    LET t == ExpandTabs(text, 0)
    IN RStrip([i \in 1..Len(t) |-> IF IsSpace(t[i]) THEN " " ELSE t[i]])

add_paragraph(doc, text) ==
    IF ~DocxDocument THEN doc ELSE DocAddParagraph(doc, Fill(text))

\* tdoc.add_picture(...): a new last paragraph holding the inline picture
DocAddPicture(doc) ==
    [doc EXCEPT !.paragraphs = Append(@, <<[text |-> <<>>, fmt |-> "picture"]>>)]

\* make_simple_chart_png: None without matplotlib
make_simple_chart_png == IF plt THEN [png |-> TRUE] ELSE None

-----------------------------------------------------------------------------
(* Research: user-provided URLs *)

\* web[url]: whether requests.get and raise_for_status succeed, and the cleaned page text
FetchFails == [ok |-> FALSE, text |-> <<>>]

bad_hosts ==
    << <<"w","i","k","i","p","e","d","i","a",".","o","r","g">>,
       <<"/","b","l","o","g">>,
       <<"m","e","d","i","u","m",".","c","o","m">>,
       <<"w","o","r","d","p","r","e","s","s">>,
       <<"b","l","o","g","s","p","o","t">> >>

\* Variant: the URL is not lower-cased.
IsBadHost_CaseSensitive(url) == \E i \in 1..Len(bad_hosts) : Contains(url, bad_hosts[i])

\* any(b in url.lower() for b in bad_hosts)
IsBadHost(url) == \E i \in 1..Len(bad_hosts) : Contains(Lower(url), bad_hosts[i])

\* whether fetch_and_clean(url) reaches requests.get(url)
CallsRequestsGet(url) == requests /\ ~IsBadHost(url)

\* fetch_and_clean(url): <<url, cleaned text>>; "" when the libraries are missing, the
\* host is excluded or the fetch raises
fetch_and_clean(url) ==
    IF ~requests THEN <<url, <<>>>>
    ELSE IF IsBadHost(url) THEN <<url, <<>>>>
    ELSE IF ~web[url].ok THEN <<url, <<>>>>
    ELSE <<url, web[url].text>>

\* summarise_text_blocks(blocks, max_chars)
RECURSIVE JoinWith(_, _)
JoinWith(ss, sep) ==
    IF ss = <<>> THEN <<>>
    ELSE IF Len(ss) = 1 THEN ss[1]
    ELSE ss[1] \o sep \o JoinWith(Tail(ss), sep)

summarise_text_blocks(blocks, max_chars) ==
    LET text == JoinWith(blocks, <<"\n", "\n">>)
    IN IF Len(text) <= max_chars THEN text
       ELSE SubSeq(text, 1, max_chars) \o <<".", ".", ".">>

\* urls = [u.strip() for u in (urls_text or "").splitlines() if u.strip()]
RECURSIVE UrlsOf(_)
UrlsOf(lines) ==
    IF lines = <<>> THEN <<>>
    ELSE IF Strip(Head(lines)) # <<>> THEN <<Strip(Head(lines))>> \o UrlsOf(Tail(lines))
    ELSE UrlsOf(Tail(lines))

\* fetched = [...]: for u in urls: url, text = fetch_and_clean(u); if text: append((url, text))
RECURSIVE Fetched(_)
Fetched(urls) ==
    IF urls = <<>> THEN <<>>
    ELSE LET r == fetch_and_clean(Head(urls))
         IN (IF r[2] # <<>> THEN <<r>> ELSE <<>>) \o Fetched(Tail(urls))

BlockTexts(fetched) == [i \in 1..Len(fetched) |-> fetched[i][2]]

\* for i, (u, _) in enumerate(fetched, 1): doc.add_paragraph(f"[{i}] {u}")
RECURSIVE AddReferences(_, _, _)
AddReferences(doc, fetched, i) ==
    IF i > Len(fetched) THEN doc
    ELSE AddReferences(
            DocAddParagraph(doc, <<"[">> \o Str(i) \o <<"]", " ">> \o fetched[i][1]),
            fetched, i + 1)

UrlsRequested(urls) == {urls[i] : i \in {j \in 1..Len(urls) : CallsRequestsGet(urls[j])}}

\* extract_text(uploaded), for a text upload (the PDF and DOCX branches are not modelled)
extract_text(uploaded) == IF uploaded = None THEN <<>> ELSE uploaded.text

-----------------------------------------------------------------------------
(* Pages 4-6: the generators *)

TOK_CLIENT_NAME == <<"{","{","C","L","I","E","N","T","_","N","A","M","E","}","}">>
TOK_GROUP_NAME  == <<"{","{","G","R","O","U","P","_","N","A","M","E","}","}">>
TOK_FY          == <<"{","{","F","Y","}","}">>
TOK_COUNTRY     == <<"{","{","C","O","U","N","T","R","Y","}","}">>

\* the dict literals, in insertion order
TPDMapping ==
    << <<TOK_CLIENT_NAME, company_name>>,
       <<TOK_FY, Str(target_year)>>,
       <<TOK_COUNTRY, country>> >>

MasterFileMapping ==
    << <<TOK_GROUP_NAME, company_name>>,
       <<TOK_FY, Str(target_year)>>,
       <<TOK_COUNTRY, country>> >>

MissingDocx == "Missing optional dependency python-docx"
NoTemplate  == "Please provide a DOCX template."

TPDSummaryChars == 1800
MasterFileSummaryChars == 2000
IndustrySummaryChars == 2200
InfoTextChars == 3000

\* Variant: the section is appended only when a URL yielded text (`if fetched:`).
TPDIndustrySection_IfFetched(doc, urls, fetched) ==
    IF fetched = <<>> THEN doc
    ELSE LET research_summary == summarise_text_blocks(BlockTexts(fetched), TPDSummaryChars)
             d1 == add_heading(doc, <<"Industry Analysis">>, 1)
             d2 == add_paragraph(d1, <<"Jurisdiction: ">> \o country \o <<". Year: ">>
                                     \o Str(target_year) \o <<".">>)
             d3 == IF research_summary # <<>> THEN add_paragraph(d2, research_summary) ELSE d2
             d4 == IF plt /\ make_simple_chart_png # None THEN DocAddPicture(d3) ELSE d3
         IN AddReferences(add_heading(d4, <<"References">>, 2), fetched, 1)

\* if urls: ... (the Industry Analysis section of the TPD Generator)
TPDIndustrySection(doc, urls, fetched) ==
    IF urls = <<>> THEN doc
    ELSE LET research_summary == summarise_text_blocks(BlockTexts(fetched), TPDSummaryChars)
             d1 == add_heading(doc, <<"Industry Analysis">>, 1)
             d2 == add_paragraph(d1, <<"Jurisdiction: ">> \o country \o <<". Year: ">>
                                     \o Str(target_year) \o <<".">>)
             d3 == IF research_summary # <<>> THEN add_paragraph(d2, research_summary) ELSE d2
             d4 == IF plt /\ make_simple_chart_png # None THEN DocAddPicture(d3) ELSE d3
         IN IF fetched # <<>>
            THEN AddReferences(add_heading(d4, <<"References">>, 2), fetched, 1)
            ELSE d4

\* if info_list_file is not None: ... (the appendix of the TPD Generator)
TPDAppendix(doc) ==
    IF info_list_file = None THEN doc
    ELSE LET info_text == extract_text(info_list_file)
         IN add_paragraph(add_heading(doc, <<"Appendix - Client Inputs">>, 1),
                          SubSeq(info_text, 1, IF Len(info_text) > InfoTextChars
                                               THEN InfoTextChars ELSE Len(info_text))
                          \o (IF Len(info_text) > InfoTextChars
                              THEN <<".", ".", ".">> ELSE <<>>))

\* The body of `if st.button("Generate TPD (.docx)")` after its two guards
TPDDocument ==
    LET urls    == UrlsOf(urls_text)
        fetched == Fetched(urls)
        tdoc    == replace_text_in_docx(template_docx, TPDMapping)
    IN TPDAppendix(TPDIndustrySection(tdoc, urls, fetched))

\* Variant: st.stop() without the st.error before it.
Stop_Silent(msg) ==
    /\ pc' = "stopped"
    /\ UNCHANGED <<errors, download, fetch_log, warnings, result>>

\* st.error(msg); st.stop()
Stop(msg) ==
    /\ errors' = Append(errors, msg)
    /\ pc' = "stopped"
    /\ UNCHANGED <<download, fetch_log, warnings, result>>

Offer(doc, urls) ==
    /\ download' = doc
    /\ fetch_log' = fetch_log \cup UrlsRequested(urls)
    /\ pc' = "done"
    /\ UNCHANGED <<errors, warnings, result>>

\* 4) TPD Generator: "Generate TPD (.docx)" pressed
GenerateTPD ==
    /\ pc = "idle"
    /\ function = "4."
    /\ IF ~DocxDocument THEN Stop(MissingDocx)
       ELSE IF template_docx = None THEN Stop(NoTemplate)
       ELSE Offer(TPDDocument, UrlsOf(urls_text))
    /\ UNCHANGED inputs

\* reqs is passed in: list(dict.fromkeys(OECD... + J...)) of the loaded pack
RECURSIVE AddBullets(_, _)
AddBullets(doc, rs) ==
    IF rs = <<>> THEN doc
    ELSE AddBullets(DocAddParagraph(doc, <<"* ">> \o Head(rs)), Tail(rs))

MasterFileDocument ==
    LET doc0    == replace_text_in_docx(template_docx, MasterFileMapping)
        doc1    == IF reqs # <<>>
                   THEN AddBullets(add_heading(doc0, <<"Compliance checklist (OECD + local)">>, 1), reqs)
                   ELSE doc0
        urls    == UrlsOf(urls_text)
        fetched == Fetched(urls)
    IN IF fetched # <<>>
       THEN AddReferences(
                add_heading(
                    add_paragraph(
                        add_heading(doc1, <<"Industry/Market Context (summary)">>, 1),
                        summarise_text_blocks(BlockTexts(fetched), MasterFileSummaryChars)),
                    <<"References">>, 2),
                fetched, 1)
       ELSE doc1

\* 5) Master File Generator: "Generate Master File (.docx)" pressed
GenerateMasterFile ==
    /\ pc = "idle"
    /\ function = "5."
    /\ IF ~DocxDocument THEN Stop(MissingDocx)
       ELSE IF template_docx = None THEN Stop(NoTemplate)
       ELSE Offer(MasterFileDocument, UrlsOf(urls_text))
    /\ UNCHANGED inputs

EmptyDocument == [paragraphs |-> <<>>, tables |-> <<>>]

\* The industry is a fixed choice; add_demo_chart is at its default, True.
IndustryDocument ==
    LET d0      == add_heading(EmptyDocument, <<"Industry Analysis - Banking">>, 1)
        d1      == add_paragraph(d0, <<"Jurisdiction: ">> \o country \o <<".">>)
        d2      == add_paragraph(d1, <<"This section summarises current market dynamics, key drivers, competitive landscape, and regulatory context, with footnoted sources.">>)
        urls    == UrlsOf(urls_text)
        fetched == Fetched(urls)
        d3      == IF fetched # <<>>
                   THEN add_paragraph(add_heading(d2, <<"Narrative (summary)">>, 2),
                            summarise_text_blocks(BlockTexts(fetched), IndustrySummaryChars))
                   ELSE d2
        d4      == IF plt /\ make_simple_chart_png # None THEN DocAddPicture(d3) ELSE d3
    IN IF fetched # <<>>
       THEN AddReferences(add_heading(d4, <<"References">>, 2), fetched, 1)
       ELSE d4

\* 6) Industry Analysis Generator: "Generate Industry Write-up (.docx)" pressed
GenerateIndustry ==
    /\ pc = "idle"
    /\ function = "6."
    /\ IF ~DocxDocument THEN Stop(MissingDocx)
       ELSE Offer(IndustryDocument, UrlsOf(urls_text))
    /\ UNCHANGED inputs

-----------------------------------------------------------------------------
(* Page 3: Information Request Generator, roll-forward of year tokens *)

\* Decimal digits as re's \d and int() read them: the ASCII digits and, standing for the
\* other Unicode decimal digits, ARABIC-INDIC DIGIT NINE, written "U+0669".
DigitValue ==
    [c \in {"0", "1", "2", "3", "4", "5", "6", "7", "8", "9", "U+0669"} |->
        CASE c = "0" -> 0 [] c = "1" -> 1 [] c = "2" -> 2 [] c = "3" -> 3 [] c = "4" -> 4
          [] c = "5" -> 5 [] c = "6" -> 6 [] c = "7" -> 7 [] c = "8" -> 8 [] c = "9" -> 9
          [] c = "U+0669" -> 9]

IsDigit(c) == c \in DOMAIN DigitValue

\* int(y) on a string of decimal digits
RECURSIVE PyInt(_)
PyInt(ds) == IF ds = <<>> THEN 0 ELSE 10 * PyInt(SubSeq(ds, 1, Len(ds) - 1)) + DigitValue[ds[Len(ds)]]

\* YEAR_RE = (?<!\d)(20\d{2}|19\d{2})(?!\d) matches s[i..i+3]
YearMatchAt(s, i) ==
    /\ i >= 1
    /\ i + 3 <= Len(s)
    /\ \/ s[i] = "2" /\ s[i + 1] = "0"
       \/ s[i] = "1" /\ s[i + 1] = "9"
    /\ IsDigit(s[i + 2])
    /\ IsDigit(s[i + 3])
    /\ (i = 1 \/ ~IsDigit(s[i - 1]))
    /\ (i + 4 > Len(s) \/ ~IsDigit(s[i + 4]))

\* {int(y) for y in YEAR_RE.findall(text)}: the scan resumes after each match
RECURSIVE FindYears(_, _)
FindYears(s, i) ==
    IF i > Len(s) THEN {}
    ELSE IF YearMatchAt(s, i) THEN {PyInt(SubSeq(s, i, i + 3))} \cup FindYears(s, i + 4)
    ELSE FindYears(s, i + 1)

\* sorted(set of ints)
RECURSIVE Sorted(_)
Sorted(S) ==
    IF S = {} THEN <<>>
    ELSE LET m == CHOOSE x \in S : \A y \in S : x <= y
         IN <<m>> \o Sorted(S \ {m})

\* text.splitlines(), "\n" being the only line break modelled
RECURSIVE SplitLines(_, _)
SplitLines(s, cur) ==
    IF s = <<>> THEN (IF cur = <<>> THEN <<>> ELSE <<cur>>)
    ELSE IF Head(s) = "\n" THEN <<cur>> \o SplitLines(Tail(s), <<>>)
    ELSE SplitLines(Tail(s), Append(cur, Head(s)))

\* [l.strip() for l in text.splitlines() if l.strip()]
RECURSIVE StrippedLines(_)
StrippedLines(ls) ==
    IF ls = <<>> THEN <<>>
    ELSE IF Strip(Head(ls)) # <<>> THEN <<Strip(Head(ls))>> \o StrippedLines(Tail(ls))
    ELSE StrippedLines(Tail(ls))

\* for y in years: q = q.replace(str(y), str(to_year))
RECURSIVE ReplaceYears(_, _, _)
ReplaceYears(q, years, to_year) ==
    IF years = <<>> THEN q
    ELSE ReplaceYears(Replace(q, Str(Head(years)), Str(to_year)), Tail(years), to_year)

\* first index >= i of q that is not whitespace (Len(q) + 1 when there is none): \s*
RECURSIVE SkipSpaces(_, _)
SkipSpaces(q, i) == IF i <= Len(q) /\ IsSpace(q[i]) THEN SkipSpaces(q, i + 1) ELSE i

\* index of the last character of the match of FY\s*20\d{2} starting at q[i], or 0
FYMatchEnd(q, i) ==
    IF i + 1 <= Len(q) /\ q[i] = "F" /\ q[i + 1] = "Y"
    THEN LET j == SkipSpaces(q, i + 2)
         IN IF /\ j + 3 <= Len(q)
               /\ q[j] = "2" /\ q[j + 1] = "0"
               /\ IsDigit(q[j + 2]) /\ IsDigit(q[j + 3])
            THEN j + 3 ELSE 0
    ELSE 0

\* re.sub(r"FY\s*20\d{2}", f"FY {to_year}", q), from index i on
RECURSIVE SubFY(_, _, _)
SubFY(q, i, to_year) ==
    IF i > Len(q) THEN <<>>
    ELSE IF FYMatchEnd(q, i) > 0
         THEN <<"F", "Y", " ">> \o Str(to_year) \o SubFY(q, FYMatchEnd(q, i) + 1, to_year)
    ELSE <<q[i]>> \o SubFY(q, i + 1, to_year)

\* q after the loop body of bump_years
BumpLine(l, years, to_year) == SubFY(ReplaceYears(l, years, to_year), 1, to_year)

bump_years(text, to_year) ==
    IF text = <<>> THEN <<>>
    ELSE LET years == Sorted(FindYears(text, 1))
             lines == StrippedLines(SplitLines(text, <<>>))
         IN [n \in 1..Len(lines) |-> BumpLine(lines[n], years, to_year)]

\* J.get("info_request_questions", []) of the starter pack, "{YEAR}" being the format field
base_questions ==
    << <<"Were there any business restructurings in FY ", "{YEAR}",
         "? If yes, provide details and impact on P&L.">>,
       <<"Provide detailed related party transaction listings by counterparty for FY ",
         "{YEAR}", ".">>,
       <<"Provide segmented P&L by transaction category for FY ", "{YEAR}", ".">>,
       <<"Provide intercompany agreements (new/updated) executed in FY ", "{YEAR}", ".">>,
       <<"Provide description of key value drivers and supply chain for FY ", "{YEAR}", ".">> >>

\* q.format(YEAR=target_year)
RECURSIVE Format(_, _)
Format(q, year) ==
    IF q = <<>> THEN <<>>
    ELSE (IF Head(q) = "{YEAR}" THEN Str(year) ELSE <<Head(q)>>) \o Format(Tail(q), year)

\* list(dict.fromkeys(xs)): first occurrences, in order
RECURSIVE DictFromKeys(_, _)
DictFromKeys(xs, seen) ==
    IF xs = <<>> THEN <<>>
    ELSE IF Head(xs) \in seen THEN DictFromKeys(Tail(xs), seen)
    ELSE <<Head(xs)>> \o DictFromKeys(Tail(xs), seen \cup {Head(xs)})

\* 3) Information Request Generator: the script run that builds the preview
InfoRequestPreview ==
    /\ pc = "idle"
    /\ function = "3."
    /\ LET rolled == bump_years(prior_text, target_year)
           compiled == DictFromKeys(
                           rolled \o [n \in 1..Len(base_questions) |->
                                         Format(base_questions[n], target_year)], {})
       IN result' = [rolled |-> rolled, compiled |-> compiled]
    /\ pc' = "done"
    /\ UNCHANGED <<errors, warnings, download, fetch_log>>
    /\ UNCHANGED inputs

-----------------------------------------------------------------------------
(* Page 2: Compliance Checker *)

Yes == "Yes"
Missing == "Missing"

\* explanations.get(req, "")
DictGet(d, key, default) ==
    IF \E i \in 1..Len(d) : d[i][1] = key
    THEN d[CHOOSE i \in 1..Len(d) : d[i][1] = key /\ \A j \in (i + 1)..Len(d) : d[j][1] # key][2]
    ELSE default

\* Variant: the requirement is not lower-cased.
ChecklistRow_CaseSensitive(req, explanations, L) ==
    LET present == Contains(L, req)
    IN [Requirement |-> req,
        Present     |-> IF present THEN Yes ELSE Missing,
        Explanation |-> IF ~present THEN DictGet(explanations, req, <<>>) ELSE <<>>]

\* one row of build_checklist
ChecklistRow(req, explanations, L) ==
    LET present == Contains(L, Lower(req))
    IN [Requirement |-> req,
        Present     |-> IF present THEN Yes ELSE Missing,
        Explanation |-> IF ~present THEN DictGet(explanations, req, <<>>) ELSE <<>>]

build_checklist(requirements, explanations, text) ==
    LET L == Lower(text)
    IN [n \in 1..Len(requirements) |-> ChecklistRow(requirements[n], explanations, L)]

NoRequirements == "No requirement list found for this jurisdiction pack. Upload a richer pack."

\* 2) Compliance Checker: the script run with a TPD uploaded
ComplianceCheck ==
    /\ pc = "idle"
    /\ function = "2."
    /\ IF reqs = <<>>
       THEN /\ warnings' = Append(warnings, NoRequirements)
            /\ UNCHANGED result
       ELSE /\ result' = build_checklist(reqs, expl, found_text)
            /\ UNCHANGED warnings
    /\ pc' = "done"
    /\ UNCHANGED <<errors, download, fetch_log>>
    /\ UNCHANGED inputs

-----------------------------------------------------------------------------
(* Sidebar: guideline pack loader *)

STARTER_PACK == [pack |-> "STARTER_PACK"]

ParseError == [error |-> TRUE]

PackWarning == "Failed to parse uploaded pack. Falling back to starter pack."

\* An uploaded file's bytes are described by what each parser makes of them once decoded:
\* raw.json is json.loads(raw) and raw.yaml is yaml.safe_load(raw), a parsed value or
\* ParseError (the call raises).

\* uploaded_file.name.lower().endswith((".yaml", ".yml"))
IsYamlName(name) ==
    \/ EndsWith(Lower(name), <<".", "y", "a", "m", "l">>)
    \/ EndsWith(Lower(name), <<".", "y", "m", "l">>)

\* Variant: `and yaml is not None` is left out, so yaml.safe_load raises without PyYAML.
ParsedPack_YamlUnchecked(uploaded_file) ==
    IF IsYamlName(uploaded_file.name)
    THEN (IF yaml THEN uploaded_file.raw.yaml ELSE ParseError)
    ELSE uploaded_file.raw.json

\* the value the try block computes: a parsed value, or ParseError when it raises
ParsedPack(uploaded_file) ==
    IF IsYamlName(uploaded_file.name) /\ yaml
    THEN uploaded_file.raw.yaml
    ELSE uploaded_file.raw.json

load_guideline_pack(uploaded_file) ==
    IF uploaded_file = None THEN STARTER_PACK
    ELSE IF ParsedPack(uploaded_file) = ParseError THEN STARTER_PACK
    ELSE ParsedPack(uploaded_file)

\* whether load_guideline_pack(uploaded_file) calls st.warning
PackWarns(uploaded_file) ==
    uploaded_file # None /\ ParsedPack(uploaded_file) = ParseError

\* Sidebar: GP = load_guideline_pack(gp_file)
LoadPack ==
    /\ pc = "idle"
    /\ function = "sidebar"
    /\ result' = load_guideline_pack(gp_file)
    /\ warnings' = IF PackWarns(gp_file) THEN Append(warnings, PackWarning) ELSE warnings
    /\ pc' = "done"
    /\ UNCHANGED <<errors, download, fetch_log>>
    /\ UNCHANGED inputs

-----------------------------------------------------------------------------
(* Inputs of the generator pages *)

MinYear == 1990
MaxYear == 2100

Run(text, fmt) == [text |-> text, fmt |-> fmt]

\* Formatting of the i-th run of an uploaded paragraph: every run has its own.
RunFmt(i) == <<"fmt", i>>

\* An uploaded paragraph whose runs hold the given texts
Para(texts) == [i \in 1..Len(texts) |-> Run(texts[i], RunFmt(i))]

\* An uploaded document: body paragraphs, and one table of one row of one cell
Doc(body, cell) == [paragraphs |-> body, tables |-> << << <<cell>> >> >>]

TemplateA ==
    Doc(<< Para(<< <<"T","P","D"," ">>, TOK_CLIENT_NAME >>),
           Para(<< <<"F","Y"," ">>, TOK_FY, <<" ","2","0","2","3">> >>) >>,
        << Para(<< TOK_COUNTRY >>) >>)

PriorB ==
    Doc(<< Para(<< <<"P","r","i","o","r"," ">>, <<"F","Y"," ","2","0","2","3">> >>) >>,
        << Para(<< <<"2","0","2","2">> >>) >>)

PlainUrl == <<"a",".","s","g">>

Page(url) == [ok |-> TRUE, text |-> <<"page:">> \o url]

InfoFile == [name |-> <<"i","r",".","t","x","t">>, text |-> <<"Q","1","\n","Q","2"," ">>]

InitOutputs ==
    /\ pc = "idle"
    /\ errors = <<>>
    /\ warnings = <<>>
    /\ download = None
    /\ fetch_log = {}
    /\ result = None

\* widgets and uploads of the pages the specification does not visit
NoPack == gp_file = None /\ yaml = TRUE
NoChecklist == found_text = <<>> /\ expl = <<>>
NoPriorText == prior_text = <<>>

\* the prior-year uploader exists in Roll-forward mode of page 4 only
PriorChoice(priors) ==
    /\ mode \in (IF function = "4." THEN {"Fresh", "Roll-forward"} ELSE {"Fresh"})
    /\ prior_tpd \in (IF mode = "Roll-forward" THEN {None} \cup priors ELSE {None})

Init ==
    /\ function \in {"4.", "5.", "6."}
    /\ DocxDocument \in BOOLEAN
    /\ requests = TRUE
    /\ plt \in BOOLEAN
    /\ PriorChoice({TemplateA, PriorB})
    /\ target_year \in {MinYear, 2024, MaxYear}
    /\ template_docx \in (IF function = "6." THEN {None} ELSE {None, TemplateA, PriorB})
    /\ info_list_file \in (IF function = "4." THEN {None, InfoFile} ELSE {None})
    /\ urls_text \in {<<>>, <<PlainUrl>>}
    /\ web \in {[u \in {PlainUrl} |-> Page(u)], [u \in {PlainUrl} |-> FetchFails]}
    /\ company_name \in {<<>>, <<"A","c","m","e">>}
    /\ country = <<"S","G">>
    /\ reqs \in (IF function = "5." THEN {<<>>, << <<"Organisational structure">> >>} ELSE {<<>>})
    /\ NoPack /\ NoChecklist /\ NoPriorText
    /\ InitOutputs

Next == GenerateTPD \/ GenerateMasterFile \/ GenerateIndustry

Spec == Init /\ [][Next]_vars

-----------------------------------------------------------------------------
(* Bounded input sets *)

\* all sequences of 0..n elements of S
RECURSIVE SeqsUpTo(_, _)
SeqsUpTo(S, n) ==
    IF n = 0 THEN {<<>>}
    ELSE LET shorter == SeqsUpTo(S, n - 1)
         IN shorter \cup {Append(q, x) : q \in shorter, x \in S}

MaxRuns == 3
MaxUrls == 2
MaxYearPieces == 4
MaxNameParts == 2
MaxReqs == 2
MaxTextLen == 3

-----------------------------------------------------------------------------
(* Templates with placeholders in every position: pages 4 and 5 *)

\* the name placeholder of the page, and the part of it after its opening braces
NameToken(f) == IF f = "4." THEN TOK_CLIENT_NAME ELSE TOK_GROUP_NAME

RunTexts(f) ==
    { <<"a">>, TOK_FY, TOK_COUNTRY, NameToken(f),
      <<"{","{">>, SubSeq(NameToken(f), 3, Len(NameToken(f))) }

RichParagraphs(f) == {Para(ts) : ts \in SeqsUpTo(RunTexts(f), MaxRuns) \ {<<>>}}

CellParagraphs == {Para(<<t>>) : t \in {<<"a">>, TOK_FY, TOK_COUNTRY}}

RichTemplates(f) == {Doc(<<p>>, <<c>>) : p \in RichParagraphs(f), c \in CellParagraphs}

InitDocs ==
    /\ function \in {"4.", "5."}
    /\ DocxDocument = TRUE
    /\ requests = TRUE
    /\ plt = TRUE
    /\ mode = "Fresh"
    /\ prior_tpd = None
    /\ target_year = 2024
    /\ template_docx \in RichTemplates(function)
    /\ info_list_file = None
    /\ urls_text = <<>>
    /\ web = [u \in {PlainUrl} |-> FetchFails]
    /\ company_name \in {<<>>, <<"A">>, NameToken(function)}
    /\ country \in {<<"S","G">>, TOK_FY}
    /\ reqs = <<>>
    /\ NoPack /\ NoChecklist /\ NoPriorText
    /\ InitOutputs

NextDocs == GenerateTPD \/ GenerateMasterFile

SpecDocs == InitDocs /\ [][NextDocs]_vars

-----------------------------------------------------------------------------
(* URL lists with excluded hosts: pages 4, 5 and 6 *)

UrlLines ==
    { <<>>, <<" ">>, PlainUrl, <<" ","b",".","s","g"," ">>,
      <<"W","i","k","i","p","e","d","i","a",".","o","r","g">>,
      <<"a",".","s","g","/","B","L","O","G">>,
      <<"m","e","d","i","u","m",".","c","o","m">>,
      <<"W","o","r","d","P","r","e","s","s">>,
      <<"b","l","o","g","s","p","o","t",".","s","g">> }

Urls == {Strip(l) : l \in UrlLines} \ {<<>>}

Webs ==
    { [u \in Urls |-> Page(u)],
      [u \in Urls |-> FetchFails],
      [u \in Urls |-> [ok |-> TRUE, text |-> <<>>]],
      [u \in Urls |-> IF u = PlainUrl THEN FetchFails ELSE Page(u)] }

InitUrls ==
    /\ function \in {"4.", "5.", "6."}
    /\ DocxDocument = TRUE
    /\ requests \in BOOLEAN
    /\ plt \in BOOLEAN
    /\ mode = "Fresh"
    /\ prior_tpd = None
    /\ target_year = 2024
    /\ template_docx = (IF function = "6." THEN None ELSE TemplateA)
    /\ info_list_file \in (IF function = "4." THEN {None, InfoFile} ELSE {None})
    /\ urls_text \in SeqsUpTo(UrlLines, MaxUrls)
    /\ web \in Webs
    /\ company_name = <<"A","c","m","e">>
    /\ country = <<"S","G">>
    /\ reqs = <<>>
    /\ NoPack /\ NoChecklist /\ NoPriorText
    /\ InitOutputs

SpecUrls == InitUrls /\ [][Next]_vars

-----------------------------------------------------------------------------
(* Prior texts with year tokens: page 3 *)

YearPieces ==
    { <<"F","Y">>, <<" ">>, <<"\n">>, <<"2","0">>, <<"1","9">>, <<"9">>, <<"U+0669">> }

InitYears ==
    /\ function = "3."
    /\ prior_text \in {Join(ps) : ps \in SeqsUpTo(YearPieces, MaxYearPieces)}
    /\ target_year \in {MinYear, 2020, MaxYear}
    /\ DocxDocument = TRUE /\ requests = TRUE /\ plt = TRUE
    /\ mode = "Fresh" /\ prior_tpd = None /\ template_docx = None /\ info_list_file = None
    /\ urls_text = <<>> /\ web = [u \in {PlainUrl} |-> FetchFails]
    /\ company_name = <<>> /\ country = <<"S","G">> /\ reqs = <<>>
    /\ NoPack /\ NoChecklist
    /\ InitOutputs

NextYears == InfoRequestPreview

SpecYears == InitYears /\ [][NextYears]_vars

-----------------------------------------------------------------------------
(* Uploaded packs: sidebar *)

NameParts == { <<"p">>, <<".","j","s","o","n">>, <<".","y","a","m","l">>, <<".","Y","M","L">> }

PackNames == {Join(ps) : ps \in SeqsUpTo(NameParts, MaxNameParts) \ {<<>>}}

PackJ == [pack |-> "uploaded, read as JSON"]
PackY == [pack |-> "uploaded, read as YAML"]

\* bytes that are JSON and YAML alike, YAML only, JSON only (a tab-indented object), neither
RawContents ==
    { [json |-> PackJ, yaml |-> PackJ],
      [json |-> ParseError, yaml |-> PackY],
      [json |-> PackJ, yaml |-> ParseError],
      [json |-> ParseError, yaml |-> ParseError] }

InitPack ==
    /\ function = "sidebar"
    /\ gp_file \in {None} \cup {[name |-> n, raw |-> r] : n \in PackNames, r \in RawContents}
    /\ yaml \in BOOLEAN
    /\ DocxDocument = TRUE /\ requests = TRUE /\ plt = TRUE
    /\ mode = "Fresh" /\ prior_tpd = None /\ template_docx = None /\ info_list_file = None
    /\ target_year = 2024
    /\ urls_text = <<>> /\ web = [u \in {PlainUrl} |-> FetchFails]
    /\ company_name = <<>> /\ country = <<"S","G">> /\ reqs = <<>>
    /\ NoChecklist /\ NoPriorText
    /\ InitOutputs

NextPack == LoadPack

SpecPack == InitPack /\ [][NextPack]_vars

-----------------------------------------------------------------------------
(* Requirement lists and document texts: page 2 *)

Requirements == { <<"A","b">>, <<"b">>, <<"B","a">> }

Explanations ==
    { <<>>,
      << << <<"A","b">>, <<"e","1">> >> >>,
      << << <<"A","b">>, <<"e","1">> >>, << <<"b">>, <<>> >>, << <<"B","a">>, <<"e","3">> >> >> }

InitChecklist ==
    /\ function = "2."
    /\ reqs \in SeqsUpTo(Requirements, MaxReqs)
    /\ expl \in Explanations
    /\ found_text \in SeqsUpTo({"a", "b", "A", "B"}, MaxTextLen)
    /\ DocxDocument = TRUE /\ requests = TRUE /\ plt = TRUE
    /\ mode = "Fresh" /\ prior_tpd = None /\ template_docx = None /\ info_list_file = None
    /\ target_year = 2024
    /\ urls_text = <<>> /\ web = [u \in {PlainUrl} |-> FetchFails]
    /\ company_name = <<>> /\ country = <<"S","G">>
    /\ NoPack /\ NoPriorText
    /\ InitOutputs

NextChecklist == ComplianceCheck

SpecChecklist == InitChecklist /\ [][NextChecklist]_vars

-----------------------------------------------------------------------------
(* Properties *)

\* k occurs in s at offset j
OccursAt(s, k, j) == j >= 1 /\ j + Len(k) - 1 <= Len(s) /\ SubSeq(s, j, j + Len(k) - 1) = k

Occurs(s, k) == \E j \in 1..Len(s) : OccursAt(s, k, j)

\* k occurs in s, letter case ignored
OccursCI(s, k) ==
    \E j \in 1..(Len(s) - Len(k) + 1) :
        \A m \in 1..Len(k) : LowerChar(s[j + m - 1]) = LowerChar(k[m])

RECURSIVE IsSubsequence(_, _)
IsSubsequence(a, b) ==
    IF a = <<>> THEN TRUE
    ELSE IF b = <<>> THEN FALSE
    ELSE IF Head(a) = Head(b) THEN IsSubsequence(Tail(a), Tail(b))
    ELSE IsSubsequence(a, Tail(b))

\* the placeholders the page supports
PageTokens == {NameToken(function), TOK_FY, TOK_COUNTRY}

\* the paragraphs of the cells of the document's tables
TableParagraphs(doc) ==
    UNION {UNION {UNION {{doc.tables[t][r][c][i] : i \in 1..Len(doc.tables[t][r][c])} :
                            c \in 1..Len(doc.tables[t][r])} :
                     r \in 1..Len(doc.tables[t])} :
              t \in 1..Len(doc.tables)}

\* the first n body paragraphs and every table-cell paragraph
BodyAndCellParagraphs(doc, n) == {doc.paragraphs[i] : i \in 1..n} \cup TableParagraphs(doc)

Generated == pc = "done" /\ function \in {"4.", "5."}

(* ---- C1 ---- *)

\* text with every YEAR_RE token replaced by the year
RECURSIVE YearsRolled(_, _, _)
YearsRolled(s, i, year) ==
    IF i > Len(s) THEN <<>>
    ELSE IF YearMatchAt(s, i) THEN Str(year) \o YearsRolled(s, i + 4, year)
    ELSE <<s[i]>> \o YearsRolled(s, i + 1, year)

\* C1: in Roll-forward mode with a prior-year TPD uploaded, the generated document starts
\* with the prior-year document's paragraphs, every fiscal-year token replaced by the
\* target year.
C1_RollForwardFromPrior ==
    (pc = "done" /\ function = "4." /\ mode = "Roll-forward" /\ prior_tpd # None)
    => /\ Len(download.paragraphs) >= Len(prior_tpd.paragraphs)
       /\ \A i \in 1..Len(prior_tpd.paragraphs) :
            i <= Len(download.paragraphs)
            => ParagraphText(download.paragraphs[i])
                 = YearsRolled(ParagraphText(prior_tpd.paragraphs[i]), 1, target_year)

(* ---- C2 ---- *)

\* index in the paragraph text of the character before run r's first
RunOffset(p, r) == Len(Join([i \in 1..(r - 1) |-> p[i].text]))

\* position pos of text lies inside an occurrence of a placeholder
InToken(text, pos) ==
    \E k \in PageTokens : \E j \in 1..pos : pos < j + Len(k) /\ OccursAt(text, k, j)

\* the characters of run r that belong to no placeholder, in order
RECURSIVE PlainOfRun(_, _, _)
PlainOfRun(p, r, i) ==
    IF i > Len(p[r].text) THEN <<>>
    ELSE (IF InToken(ParagraphText(p), RunOffset(p, r) + i) THEN <<>> ELSE <<p[r].text[i]>>)
         \o PlainOfRun(p, r, i + 1)

RunsKept(before, after) ==
    /\ Len(after) = Len(before)
    /\ \A r \in 1..Len(before) :
        /\ after[r].fmt = before[r].fmt
        /\ IsSubsequence(PlainOfRun(before, r, 1), after[r].text)

\* C2: after replacement every paragraph has the runs it had, with their formatting, and
\* each run still holds, in order, its characters that were not part of a placeholder.
C2_RunFormattingPreserved ==
    Generated
    => /\ \A i \in 1..Len(template_docx.paragraphs) :
            RunsKept(template_docx.paragraphs[i], download.paragraphs[i])
       /\ \A t \in 1..Len(template_docx.tables) :
          \A r \in 1..Len(template_docx.tables[t]) :
          \A c \in 1..Len(template_docx.tables[t][r]) :
          \A i \in 1..Len(template_docx.tables[t][r][c]) :
            RunsKept(template_docx.tables[t][r][c][i], download.tables[t][r][c][i])

(* ---- C3 ---- *)

NoTokenLeft ==
    \A p \in BodyAndCellParagraphs(download, Len(template_docx.paragraphs)) :
        \A k \in PageTokens : ~Occurs(ParagraphText(p), k)

\* C3 as stated: after the mapping was applied, no supported placeholder remains in a body
\* paragraph or a table-cell paragraph, whatever the template and the entered values.
C3_NoPlaceholderRemains == Generated => NoTokenLeft

BraceFree(s) == \A i \in 1..Len(s) : s[i] \notin {"{", "}"}

\* every brace of the text lies inside a complete supported placeholder
BracesOnlyInTokens(text) ==
    \A pos \in 1..Len(text) : text[pos] \in {"{", "}"} => InToken(text, pos)

PlainInputs ==
    /\ BraceFree(company_name)
    /\ BraceFree(country)
    /\ \A p \in BodyAndCellParagraphs(template_docx, Len(template_docx.paragraphs)) :
            BracesOnlyInTokens(ParagraphText(p))

\* C3 amended: no supported placeholder remains, provided the entered name and the
\* jurisdiction hold no brace and every brace of the template's paragraphs lies inside a
\* complete supported placeholder.
C3_NoPlaceholderRemainsPlain == (Generated /\ PlainInputs) => NoTokenLeft

\* a placeholder split over two runs of the body paragraph and one in the table cell
C3_Witness ==
    /\ Generated /\ PlainInputs
    /\ \E k \in PageTokens :
        /\ Occurs(ParagraphText(template_docx.paragraphs[1]), k)
        /\ \A r \in 1..Len(template_docx.paragraphs[1]) :
              ~Occurs(template_docx.paragraphs[1][r].text, k)
    /\ \E p \in TableParagraphs(template_docx) : Occurs(ParagraphText(p), TOK_COUNTRY)
    /\ company_name # <<>>

(* ---- C4 ---- *)

\* indices of the generated paragraphs that are the heading
HeadingAt(text, fmt) ==
    {i \in 1..Len(download.paragraphs) : download.paragraphs[i] = <<Run(<<text>>, fmt)>>}

IndustryHeadings == HeadingAt("Industry Analysis", "bold16")
ReferenceHeadings == HeadingAt("References", "bold14")
AppendixHeadings == HeadingAt("Appendix - Client Inputs", "bold16")

UrlLineGiven == \E i \in 1..Len(urls_text) : Strip(urls_text[i]) # <<>>

UrlYieldedText ==
    \E i \in 1..Len(urls_text) :
        Strip(urls_text[i]) # <<>> /\ fetch_and_clean(Strip(urls_text[i]))[2] # <<>>

\* C4: the TPD Generator appends each section once, after the template's paragraphs, under
\* its condition, in the order Industry Analysis, References, Appendix.
C4_ConditionalSections ==
    (pc = "done" /\ function = "4.")
    => /\ \A i \in IndustryHeadings \cup ReferenceHeadings \cup AppendixHeadings :
            i > Len(template_docx.paragraphs)
       /\ \A i \in 1..Len(template_docx.paragraphs) :
            ParagraphText(download.paragraphs[i])
              = ParagraphText(ReplaceInParagraph(template_docx.paragraphs[i], TPDMapping))
       /\ Cardinality(IndustryHeadings) = (IF UrlLineGiven THEN 1 ELSE 0)
       /\ Cardinality(ReferenceHeadings) = (IF UrlYieldedText THEN 1 ELSE 0)
       /\ Cardinality(AppendixHeadings) = (IF info_list_file # None THEN 1 ELSE 0)
       /\ \A i \in IndustryHeadings : \A j \in ReferenceHeadings \cup AppendixHeadings : i < j
       /\ \A i \in ReferenceHeadings : \A j \in AppendixHeadings : i < j

C4_Witness ==
    /\ pc = "done" /\ function = "4."
    /\ IndustryHeadings # {} /\ ReferenceHeadings # {} /\ AppendixHeadings # {}

(* ---- C5 ---- *)

ExcludedWords ==
    { <<"w","i","k","i","p","e","d","i","a",".","o","r","g">>, <<"/","b","l","o","g">>,
      <<"m","e","d","i","u","m",".","c","o","m">>, <<"w","o","r","d","p","r","e","s","s">>,
      <<"b","l","o","g","s","p","o","t">> }

IsExcluded(url) == \E b \in ExcludedWords : OccursCI(url, b)

IsReferenceOf(p, url) ==
    \E i \in 1..Len(download.paragraphs) :
        ParagraphText(p) = <<"[">> \o Str(i) \o <<"]", " ">> \o url

\* C5: a URL holding an excluded word, in any letter case, is returned with empty text and
\* never fetched; no generated paragraph holds its page's text or lists it as a reference.
C5_ExcludedHosts ==
    pc = "done"
    => \A n \in 1..Len(urls_text) :
        LET u == Strip(urls_text[n])
        IN (u # <<>> /\ IsExcluded(u))
           => /\ fetch_and_clean(u) = <<u, <<>>>>
              /\ u \notin fetch_log
              /\ \A i \in 1..Len(download.paragraphs) :
                    /\ ~IsReferenceOf(download.paragraphs[i], u)
                    /\ web[u].text # <<>>
                       => ~Occurs(ParagraphText(download.paragraphs[i]), web[u].text)

\* an excluded URL written with capitals whose page is up, beside a URL that was fetched
C5_Witness ==
    /\ pc = "done" /\ requests
    /\ \E n \in 1..Len(urls_text) :
        LET u == Strip(urls_text[n])
        IN u # <<>> /\ IsExcluded(u) /\ Lower(u) # u /\ web[u].ok /\ web[u].text # <<>>
    /\ fetch_log # {}
    /\ \E i \in 1..Len(download.paragraphs) :
          download.paragraphs[i] = <<Run(<<"References">>, "bold14")>>

(* ---- C6 ---- *)

\* C6: no line returned by bump_years holds a standalone year token other than the target.
C6_NoOtherYearRemains ==
    (pc = "done" /\ function = "3.")
    => \A n \in 1..Len(result.rolled) :
        \A i \in 1..Len(result.rolled[n]) :
            YearMatchAt(result.rolled[n], i)
            => SubSeq(result.rolled[n], i, i + 3) = Str(target_year)

(* ---- C7 ---- *)

HasSuffixCI(name, suffix) ==
    /\ Len(name) >= Len(suffix)
    /\ \A m \in 1..Len(suffix) :
          LowerChar(name[Len(name) - Len(suffix) + m]) = suffix[m]

ReadAsYaml ==
    /\ yaml
    /\ \/ HasSuffixCI(gp_file.name, <<".", "y", "a", "m", "l">>)
       \/ HasSuffixCI(gp_file.name, <<".", "y", "m", "l">>)

ExpectedParse == IF ReadAsYaml THEN gp_file.raw.yaml ELSE gp_file.raw.json

\* C7: the starter pack without an upload; the starter pack and a warning when the upload
\* does not parse; otherwise the upload parsed as YAML (a .yaml/.yml name, library
\* present) or as JSON.  The call always returns a pack.
C7_PackLoader ==
    pc = "done"
    => /\ result # ParseError
       /\ IF gp_file = None THEN result = STARTER_PACK /\ warnings = <<>>
          ELSE IF ExpectedParse = ParseError
               THEN result = STARTER_PACK /\ warnings = <<PackWarning>>
          ELSE result = ExpectedParse /\ warnings = <<>>

\* a .YML upload that only parses as JSON, read as JSON because PyYAML is missing
C7_Witness ==
    /\ pc = "done" /\ gp_file # None /\ ~yaml
    /\ HasSuffixCI(gp_file.name, <<".", "y", "m", "l">>)
    /\ gp_file.raw.yaml = ParseError
    /\ result = PackJ

(* ---- C8 ---- *)

HasExplanation(req) == \E i \in 1..Len(expl) : expl[i][1] = req

\* C8: one row per requirement, in order; present iff the requirement occurs in the text,
\* letter case ignored; an explanation only on a missing row that has one.
C8_Checklist ==
    (pc = "done" /\ function = "2." /\ reqs # <<>>)
    => /\ Len(result) = Len(reqs)
       /\ \A n \in 1..Len(reqs) :
            /\ result[n].Requirement = reqs[n]
            /\ result[n].Present \in {Yes, Missing}
            /\ result[n].Present = Yes <=> OccursCI(found_text, reqs[n])
            /\ result[n].Explanation # <<>>
               => result[n].Present = Missing /\ HasExplanation(reqs[n])

\* a requirement found only because case is ignored, and a missing one with its explanation
C8_Witness ==
    /\ pc = "done" /\ function = "2." /\ Len(reqs) = 2
    /\ result[1].Present = Yes /\ ~Occurs(found_text, reqs[1])
    /\ result[2].Present = Missing /\ result[2].Explanation # <<>>

(* ---- C9 ---- *)

\* C9: Generate on page 4 or 5 without python-docx or without a template reports the
\* error and stops: nothing is fetched and no document is offered.
C9_GuardsStop ==
    (pc # "idle" /\ function \in {"4.", "5."} /\ (~DocxDocument \/ template_docx = None))
    => /\ pc = "stopped"
       /\ errors = <<IF ~DocxDocument THEN MissingDocx ELSE NoTemplate>>
       /\ download = None
       /\ fetch_log = {}

C9_Witness ==
    /\ pc = "stopped" /\ function = "5." /\ DocxDocument /\ template_docx = None
    /\ urls_text # <<>>

=============================================================================
